---- MODULE Spec2Model ----
(***************************************************************************)
(* Relay engine of src/s.js: connection registry, significant-change       *)
(* filter, batched broadcast, liveness sweep and bounded chat history.     *)
(*                                                                         *)
(* Every handler of the server runs to completion (one Node.js event loop  *)
(* turn), so every handler is one action.  Coordinates are integers in     *)
(* units of 0.0005, which makes the thresholds of 0.001 the integer 2.     *)
(***************************************************************************)
EXTENDS Integers, Sequences, FiniteSets, TLC

\* ---- bounds of the model ----
MaxSockets == 3      \* socket objects ever created
MaxQueue == 2        \* longest pending queue the environment builds up
MaxChats == 2        \* chat messages accepted in the relay specification
MaxChatsLong == 27   \* chat messages accepted in the chat specification
MaxTime == 2         \* ticks of the clock in the heartbeat specification

\* ---- program constants ----
MAX_CHAT_HISTORY == 25
POSITION_THRESHOLD == 2   \* 0.001, in units of 0.0005
ROTATION_THRESHOLD == 2   \* 0.001, in units of 0.0005

Sockets == 1..MaxSockets
NoWs == 0                 \* excludeWs = null
\* an allow-list that has grown by one emote
validEmotes_WithBackflip == {"wave", "dance", "backflip"}

validEmotes == {"wave", "dance"}
Emotes == validEmotes \cup {"backflip"}

VARIABLES
    readyState,        \* ws.readyState of every socket object ("NONE": not created yet)
    wssClients,        \* wss.clients, the set the ws library keeps
    isAlive,           \* ws.isAlive
    clients,           \* the Map clients, as the sequence of its entries in insertion order
    chatHistory,       \* the array chatHistory
    pendingUpdates,    \* the Map pendingUpdates, entries in insertion order
    updateBatchTimer,  \* TRUE iff updateBatchTimer holds a timer (is not null)
    timers,            \* setTimeout(flushBatchedUpdates) callbacks not yet run
    sent,              \* the frames handed to ws.send by the last handler, in order
    leftCount,         \* per socket: player_left broadcasts issued for its connection
    removeCount,       \* per socket: times its entry was deleted from clients
    missed,            \* per socket: sweeps since its connect or last pong (saturates at 2)
    chatCount,         \* chat messages appended to chatHistory so far
    idOf,              \* per socket: the id generateUniqueId gave its connection (0: none)
    lastBroadcast,     \* per registered socket: the state in the last player_update it had broadcast
    received,          \* the player_update the last handler was given, where observed,
                       \* and the one its sender sent right before it
    now,               \* Date.now(), in ticks from 1
    lastHeartbeat,     \* per registered socket: clients.get(ws).lastHeartbeat (0: no entry)
    heard              \* history, per observed socket: the ids it has been sent as joined
                       \* (existing_players, player_joined) and as left (player_left)

vars == <<readyState, wssClients, isAlive, clients, chatHistory, pendingUpdates,
          updateBatchTimer, timers, sent, leftCount, removeCount, missed, chatCount,
          idOf, lastBroadcast, received, now, lastHeartbeat,
          heard>>

\* ---- player state ----
St(x, y, z, r, m, g) ==
    [position |-> [x |-> x, y |-> y, z |-> z], rotationY |-> r,
     isMoving |-> m, isGrounded |-> g]

initialState == St(0, 0, 0, 0, FALSE, TRUE)

\* What clients send in player_update.  In the relay every client moves 0.0005,
\* 0.001 or 0.0015 along x from the origin ...
RelayStates ==
    { St(1, 0, 0, 0, FALSE, TRUE), St(2, 0, 0, 0, FALSE, TRUE),
      St(3, 0, 0, 0, FALSE, TRUE) }

\* ... and the change filter also sees the way back, a second move, and one change
\* above the threshold on every other compared field.
FilterStates ==
    RelayStates \cup
    { initialState, St(5, 0, 0, 0, FALSE, TRUE), St(0, 3, 0, 0, FALSE, TRUE),
      St(0, 0, -3, 0, FALSE, TRUE), St(0, 0, 0, 3, FALSE, TRUE),
      St(0, 0, 0, 0, TRUE, TRUE), St(0, 0, 0, 0, FALSE, FALSE) }

Abs(n) == IF n < 0 THEN -n ELSE n

\* a number read from a field the message does not have: undefined in arithmetic
NaN == 999

\* Math.abs(a - b) > threshold, which is false when a - b is NaN
Exceeds(a, b, threshold) == a # NaN /\ b # NaN /\ Abs(a - b) > threshold

\* states with a position object that holds no coordinates, and no rotationY
UnusableStates ==
    { St(NaN, NaN, NaN, NaN, TRUE, TRUE), St(NaN, NaN, NaN, NaN, FALSE, TRUE) }

\* a frame JSON.parse rejects; a player_update with no state; one whose state has
\* no position
MalformedShapes == {"unparseable", "no_state", "no_position"}

\* ---- Map helpers (a Map is the sequence of its entries, each with key ws) ----
Keys(m) == [i \in 1..Len(m) |-> m[i].ws]
Has(m, ws) == \E i \in 1..Len(m) : m[i].ws = ws
Get(m, ws) == m[CHOOSE i \in 1..Len(m) : m[i].ws = ws]
Delete(m, ws) == SelectSeq(m, LAMBDA e : e.ws # ws)
Registered == {clients[i].ws : i \in 1..Len(clients)}

\* ---- outbound messages ----
AssignId(id) == [type |-> "assign_id", id |-> id, initialState |-> initialState]
ExistingPlayers(pd) == [type |-> "existing_players", playersData |-> pd]
ChatHistoryMsg(h) == [type |-> "chat_history", history |-> h]
PlayerJoined(id) ==
    [type |-> "player_joined", playerData |-> [id |-> id, state |-> initialState]]
PlayerLeft(id) == [type |-> "player_left", id |-> id]
PlayerUpdateMsg(id, state) == [type |-> "player_update", id |-> id, state |-> state]
BatchUpdate(messages) == [type |-> "batch_update", updates |-> messages]
ChatMsg(id, text) == [type |-> "chat_message", senderId |-> id, message |-> text]
EmoteStart(id, emote) == [type |-> "emote_start", playerId |-> id, emote |-> emote]
PongMsg == [type |-> "pong"]

\* ---- the part of the state the broadcast helpers read and write ----
Cur ==
    [clients |-> clients, pendingUpdates |-> pendingUpdates,
     updateBatchTimer |-> updateBatchTimer, timers |-> timers,
     readyState |-> readyState, isAlive |-> isAlive, sent |-> <<>>,
     leftCount |-> leftCount, removeCount |-> removeCount,
     lastBroadcast |-> lastBroadcast, lastHeartbeat |-> lastHeartbeat]

\* ws.send(msg) that does not throw
Send(st, ws, msg) == [st EXCEPT !.sent = Append(@, [to |-> ws, msg |-> msg])]

\* the rest of a forEach, run on the state its earlier iterations left
ByValue(x, Rest(_)) == CHOOSE result \in {Rest(v) : v \in {x}} : TRUE

RECURSIVE BroadcastLoop(_, _, _, _, _)
RECURSIVE handleClientDisconnect(_, _, _)

\* BroadcastLoop with the try around the whole forEach: the first throw ends it
BroadcastLoop_StopAtThrow(st, order, message, excludeWs, fail) ==
    IF order = <<>> THEN st
    ELSE LET ws == Head(order)
         IN IF Has(st.clients, ws) /\ ws # excludeWs /\ st.readyState[ws] = "OPEN"
            THEN IF ws \in fail
                 THEN handleClientDisconnect(st, ws, fail)
                 ELSE ByValue(Send(st, ws, message),
                              LAMBDA s : BroadcastLoop(s, Tail(order), message,
                                                       excludeWs, fail))
            ELSE BroadcastLoop(st, Tail(order), message, excludeWs, fail)

\* clients.forEach of broadcastImmediate over the entries `order` still to visit:
\* an entry deleted before its turn is not visited.  fail is the set of sockets
\* whose ws.send throws during this handler.
BroadcastLoop(st, order, message, excludeWs, fail) ==
    IF order = <<>> THEN st
    ELSE LET ws == Head(order)
             st1 == IF Has(st.clients, ws) /\ ws # excludeWs
                        /\ st.readyState[ws] = "OPEN"
                    THEN IF ws \in fail
                         THEN handleClientDisconnect(st, ws, fail)
                         ELSE Send(st, ws, message)
                    ELSE st
         IN ByValue(st1, LAMBDA s : BroadcastLoop(s, Tail(order), message,
                                                  excludeWs, fail))

broadcastImmediate(st, message, excludeWs, fail) ==
    BroadcastLoop(st, Keys(st.clients), message, excludeWs, fail)

\* handleClientDisconnect without its guard: clients.get(ws)?.id
handleClientDisconnect_NoGuard(st, ws, fail) ==
    LET id == IF Has(st.clients, ws) THEN Get(st.clients, ws).id ELSE 0
        st1 == [st EXCEPT !.clients = Delete(@, ws),
                          !.pendingUpdates = Delete(@, ws),
                          !.removeCount[ws] = IF Has(st.clients, ws) THEN @ + 1 ELSE @,
                          !.leftCount[ws] = @ + 1,
                          !.lastBroadcast[ws] = initialState,
                          !.lastHeartbeat[ws] = 0]
    IN broadcastImmediate(st1, PlayerLeft(id), NoWs, fail)

\* handleClientDisconnect without pendingUpdates.delete(ws)
handleClientDisconnect_KeepQueue(st, ws, fail) ==
    IF Has(st.clients, ws)
    THEN LET clientData == Get(st.clients, ws)
             st1 == [st EXCEPT !.clients = Delete(@, ws),
                               !.removeCount[ws] = @ + 1,
                               !.leftCount[ws] = @ + 1,
                               !.lastBroadcast[ws] = initialState,
                               !.lastHeartbeat[ws] = 0]
         IN broadcastImmediate(st1, PlayerLeft(clientData.id), NoWs, fail)
    ELSE st

handleClientDisconnect(st, ws, fail) ==
    IF Has(st.clients, ws)
    THEN LET clientData == Get(st.clients, ws)
             st1 == [st EXCEPT !.clients = Delete(@, ws),
                               !.pendingUpdates = Delete(@, ws),
                               !.removeCount[ws] = @ + 1,
                               !.leftCount[ws] = @ + 1,
                               !.lastBroadcast[ws] = initialState,
                               !.lastHeartbeat[ws] = 0]
         IN broadcastImmediate(st1, PlayerLeft(clientData.id), NoWs, fail)
    ELSE st

\* pendingUpdates after the forEach of batchBroadcast has visited `order`
RECURSIVE EnqueueLoop(_, _, _, _)
EnqueueLoop(st, order, message, excludeWs) ==
    IF order = <<>> THEN st
    ELSE LET ws == Head(order)
             pu == st.pendingUpdates
             pu1 == IF Has(pu, ws) THEN pu
                    ELSE Append(pu, [ws |-> ws, messages |-> <<>>])
             pu2 == [i \in 1..Len(pu1) |->
                        IF pu1[i].ws = ws
                        THEN [pu1[i] EXCEPT !.messages = Append(@, message)]
                        ELSE pu1[i]]
             st1 == IF ws # excludeWs /\ st.readyState[ws] = "OPEN"
                    THEN [st EXCEPT !.pendingUpdates = pu2]
                    ELSE st
         IN ByValue(st1, LAMBDA s : EnqueueLoop(s, Tail(order), message, excludeWs))

\* batchBroadcast that schedules a flush on every call
batchBroadcast_AlwaysSchedule(st, message, excludeWs, priority, fail) ==
    IF priority THEN broadcastImmediate(st, message, excludeWs, fail)
    ELSE LET st1 == EnqueueLoop(st, Keys(st.clients), message, excludeWs)
         IN [st1 EXCEPT !.updateBatchTimer = TRUE, !.timers = @ + 1]

\* batchBroadcast that queues the message for the sender as well
batchBroadcast_NoExclude(st, message, excludeWs, priority, fail) ==
    IF priority THEN broadcastImmediate(st, message, excludeWs, fail)
    ELSE LET st1 == EnqueueLoop(st, Keys(st.clients), message, NoWs)
         IN IF ~st1.updateBatchTimer
            THEN [st1 EXCEPT !.updateBatchTimer = TRUE, !.timers = @ + 1]
            ELSE st1

batchBroadcast(st, message, excludeWs, priority, fail) ==
    IF priority THEN broadcastImmediate(st, message, excludeWs, fail)
    ELSE LET st1 == EnqueueLoop(st, Keys(st.clients), message, excludeWs)
         IN IF ~st1.updateBatchTimer
            THEN [st1 EXCEPT !.updateBatchTimer = TRUE, !.timers = @ + 1]
            ELSE st1

\* pendingUpdates.forEach of flushBatchedUpdates
RECURSIVE FlushLoop(_, _, _)
FlushLoop(st, order, fail) ==
    IF order = <<>> THEN st
    ELSE LET ws == Head(order)
             st1 == IF Has(st.pendingUpdates, ws) /\ st.readyState[ws] = "OPEN"
                    THEN LET messages == Get(st.pendingUpdates, ws).messages
                         IN IF ws \in fail /\ Len(messages) >= 1
                            THEN handleClientDisconnect(st, ws, fail)
                            ELSE IF Len(messages) = 1
                                 THEN Send(st, ws, messages[1])
                                 ELSE IF Len(messages) > 1
                                      THEN Send(st, ws, BatchUpdate(messages))
                                      ELSE st
                    ELSE st
         IN ByValue(st1, LAMBDA s : FlushLoop(s, Tail(order), fail))

\* flushBatchedUpdates that forgets pendingUpdates.clear()
flushBatchedUpdates_NoClear(st, fail) ==
    LET st1 == FlushLoop(st, Keys(st.pendingUpdates), fail)
    IN [st1 EXCEPT !.updateBatchTimer = FALSE]

\* flushBatchedUpdates that leaves updateBatchTimer set
flushBatchedUpdates_KeepTimer(st, fail) ==
    LET st1 == FlushLoop(st, Keys(st.pendingUpdates), fail)
    IN [st1 EXCEPT !.pendingUpdates = <<>>]

flushBatchedUpdates(st, fail) ==
    LET st1 == FlushLoop(st, Keys(st.pendingUpdates), fail)
    IN [st1 EXCEPT !.pendingUpdates = <<>>, !.updateBatchTimer = FALSE]

\* hasSignificantChange with >= for > on the position
hasSignificantChange_AtThreshold(oldState, newState) ==
    \/ Exceeds(oldState.position.x, newState.position.x, POSITION_THRESHOLD - 1)
    \/ Exceeds(oldState.position.y, newState.position.y, POSITION_THRESHOLD - 1)
    \/ Exceeds(oldState.position.z, newState.position.z, POSITION_THRESHOLD - 1)
    \/ Exceeds(oldState.rotationY, newState.rotationY, ROTATION_THRESHOLD)
    \/ oldState.isMoving # newState.isMoving
    \/ oldState.isGrounded # newState.isGrounded

\* oldState is never absent: every connection is registered with initialState;
\* newState has a position (without one the function throws, see MalformedFrame)
hasSignificantChange(oldState, newState) ==
    LET posChanged ==
            \/ Exceeds(oldState.position.x, newState.position.x, POSITION_THRESHOLD)
            \/ Exceeds(oldState.position.y, newState.position.y, POSITION_THRESHOLD)
            \/ Exceeds(oldState.position.z, newState.position.z, POSITION_THRESHOLD)
        rotChanged == Exceeds(oldState.rotationY, newState.rotationY, ROTATION_THRESHOLD)
        stateChanged == \/ oldState.isMoving # newState.isMoving
                        \/ oldState.isGrounded # newState.isGrounded
    IN posChanged \/ rotChanged \/ stateChanged

SetState(m, ws, state) ==
    [i \in 1..Len(m) |-> IF m[i].ws = ws THEN [m[i] EXCEPT !.state = state] ELSE m[i]]

\* the player_update branch that stores every update, significant or not
onPlayerUpdate_StoreAlways(st, ws, state) ==
    IF ~Has(st.clients, ws) THEN st
    ELSE LET senderData == Get(st.clients, ws)
             st0 == [st EXCEPT !.clients = SetState(@, ws, state)]
         IN IF hasSignificantChange(senderData.state, state)
            THEN LET st1 == [st0 EXCEPT !.lastBroadcast[ws] = state]
                 IN batchBroadcast(st1, PlayerUpdateMsg(senderData.id, state),
                                   ws, FALSE, {})
            ELSE st0

\* the message handler's player_update branch
onPlayerUpdate(st, ws, state) ==
    IF ~Has(st.clients, ws) THEN st
    ELSE LET senderData == Get(st.clients, ws)
         IN IF hasSignificantChange(senderData.state, state)
            THEN LET st0 == [st EXCEPT !.clients = SetState(@, ws, state),
                                       !.lastBroadcast[ws] = state]
                 IN batchBroadcast(st0, PlayerUpdateMsg(senderData.id, state),
                                   ws, FALSE, {})
            ELSE st

\* the connection handler with player_joined sent to the new socket as well
onConnection_JoinedToAll(st, ws, clientId, history, fail) ==
    LET st0 == [st EXCEPT !.readyState[ws] = "OPEN",
                          !.isAlive[ws] = TRUE,
                          !.lastBroadcast[ws] = initialState,
                          !.lastHeartbeat[ws] = now,
                          !.clients = Append(@, [ws |-> ws, id |-> clientId,
                                                 state |-> initialState])]
        st1 == Send(st0, ws, AssignId(clientId))
        others == SelectSeq(st1.clients, LAMBDA e : e.ws # ws)
        existingPlayersData ==
            [i \in 1..Len(others) |-> [id |-> others[i].id, state |-> others[i].state]]
        st2 == IF Len(existingPlayersData) > 0
               THEN Send(st1, ws, ExistingPlayers(existingPlayersData))
               ELSE st1
        st3 == IF Len(history) > 0 THEN Send(st2, ws, ChatHistoryMsg(history)) ELSE st2
    IN broadcastImmediate(st3, PlayerJoined(clientId), NoWs, fail)

\* the connection handler that never sends existing_players
onConnection_NoExistingPlayers(st, ws, clientId, history, fail) ==
    LET st0 == [st EXCEPT !.readyState[ws] = "OPEN",
                          !.isAlive[ws] = TRUE,
                          !.lastBroadcast[ws] = initialState,
                          !.lastHeartbeat[ws] = now,
                          !.clients = Append(@, [ws |-> ws, id |-> clientId,
                                                 state |-> initialState])]
        st1 == Send(st0, ws, AssignId(clientId))
        st3 == IF Len(history) > 0 THEN Send(st1, ws, ChatHistoryMsg(history)) ELSE st1
    IN broadcastImmediate(st3, PlayerJoined(clientId), ws, fail)

\* the connection handler up to the registration of the socket's own handlers
onConnection(st, ws, clientId, history, fail) ==
    LET st0 == [st EXCEPT !.readyState[ws] = "OPEN",
                          !.isAlive[ws] = TRUE,
                          !.lastBroadcast[ws] = initialState,
                          !.lastHeartbeat[ws] = now,
                          !.clients = Append(@, [ws |-> ws, id |-> clientId,
                                                 state |-> initialState])]
        st1 == Send(st0, ws, AssignId(clientId))
        others == SelectSeq(st1.clients, LAMBDA e : e.ws # ws)
        existingPlayersData ==
            [i \in 1..Len(others) |-> [id |-> others[i].id, state |-> others[i].state]]
        st2 == IF Len(existingPlayersData) > 0
               THEN Send(st1, ws, ExistingPlayers(existingPlayersData))
               ELSE st1
        st3 == IF Len(history) > 0 THEN Send(st2, ws, ChatHistoryMsg(history)) ELSE st2
    IN broadcastImmediate(st3, PlayerJoined(clientId), ws, fail)

\* chatHistory.push with the >= MAX_CHAT_HISTORY test
PushChat_OffByOne(history, chatEntry) ==
    LET pushed == Append(history, chatEntry)
    IN IF Len(pushed) >= MAX_CHAT_HISTORY THEN Tail(pushed) ELSE pushed

\* chatHistory.push(chatEntry), then shift() when over MAX_CHAT_HISTORY
PushChat(history, chatEntry) ==
    LET pushed == Append(history, chatEntry)
    IN IF Len(pushed) > MAX_CHAT_HISTORY THEN Tail(pushed) ELSE pushed

\* the heartbeat interval that never clears isAlive
RECURSIVE SweepLoop(_, _, _)
SweepLoop_NoReset(st, order, fail) ==
    IF order = <<>> THEN st
    ELSE LET ws == Head(order)
             st1 == IF st.isAlive[ws] = FALSE
                    THEN [handleClientDisconnect(st, ws, fail)
                             EXCEPT !.readyState[ws] = "CLOSING"]
                    ELSE st
         IN ByValue(st1, LAMBDA s : SweepLoop(s, Tail(order), fail))

\* wss.clients.forEach of the heartbeat interval; ws.terminate() leaves the
\* socket CLOSING until its close event
SweepLoop(st, order, fail) ==
    IF order = <<>> THEN st
    ELSE LET ws == Head(order)
             st1 == IF st.isAlive[ws] = FALSE
                    THEN [handleClientDisconnect(st, ws, fail)
                             EXCEPT !.readyState[ws] = "CLOSING"]
                    ELSE [st EXCEPT !.isAlive[ws] = FALSE]
         IN ByValue(st1, LAMBDA s : SweepLoop(s, Tail(order), fail))

\* the Set S in insertion order, which is the order the sockets were created in
Ascending(S) == SelectSeq([i \in 1..MaxSockets |-> i], LAMBDA ws : ws \in S)

\* senderData.lastHeartbeat = now, past the handler's if (!senderData) return
Stamp(st, ws) == IF Has(st.clients, ws) THEN [st EXCEPT !.lastHeartbeat[ws] = now] ELSE st

\* the ids the frames `out` introduce to ws, and those they tell it have left
JoinedIn(out, ws) ==
    UNION { IF out[i].to # ws THEN {}
            ELSE IF out[i].msg.type = "player_joined" THEN {out[i].msg.playerData.id}
            ELSE IF out[i].msg.type = "existing_players"
                 THEN {out[i].msg.playersData[k].id :
                            k \in 1..Len(out[i].msg.playersData)}
            ELSE {} : i \in 1..Len(out) }

LeftIn(out, ws) ==
    {out[i].msg.id : i \in {j \in 1..Len(out) :
                                out[j].to = ws /\ out[j].msg.type = "player_left"}}

\* ---- writing a helper's result back ----
Commit(result) ==
    \E st \in {result} :
        /\ clients' = st.clients
        /\ pendingUpdates' = st.pendingUpdates
        /\ updateBatchTimer' = st.updateBatchTimer
        /\ timers' = st.timers
        /\ readyState' = st.readyState
        /\ isAlive' = st.isAlive
        /\ sent' = st.sent
        /\ leftCount' = st.leftCount
        /\ removeCount' = st.removeCount
        /\ lastBroadcast' = st.lastBroadcast
        /\ lastHeartbeat' = st.lastHeartbeat
        /\ heard' = IF DOMAIN heard = {} THEN heard
                     ELSE [ws \in DOMAIN heard |->
                              [joined |-> heard[ws].joined \cup JoinedIn(st.sent, ws),
                               left |-> heard[ws].left \cup LeftIn(st.sent, ws)]]

NoUpdate == [ws |-> NoWs, frame |-> "none", state |-> initialState, prev |-> initialState]

\* received for a frame other than a usable player_update
Frame(ws, kind) == [NoUpdate EXCEPT !.ws = ws, !.frame = kind]

Constructed ==
    /\ readyState = [ws \in Sockets |-> "NONE"]
    /\ wssClients = {}
    /\ isAlive = [ws \in Sockets |-> TRUE]
    /\ clients = <<>>
    /\ chatHistory = <<>>
    /\ pendingUpdates = <<>>
    /\ updateBatchTimer = FALSE
    /\ timers = 0
    /\ sent = <<>>
    /\ leftCount = [ws \in Sockets |-> 0]
    /\ removeCount = [ws \in Sockets |-> 0]
    /\ missed = [ws \in Sockets |-> 0]
    /\ chatCount = 0
    /\ idOf = [ws \in Sockets |-> 0]
    /\ lastBroadcast = [ws \in Sockets |-> initialState]
    /\ received = NoUpdate
    /\ now = 1
    /\ lastHeartbeat = [ws \in Sockets |-> 0]

\* the server after construction, no socket's deliveries observed
Init == Constructed /\ heard = <<>>

\* the same server with the deliveries to every socket observed
InitObserved == Constructed /\ heard = [ws \in Sockets |-> [joined |-> {}, left |-> {}]]

\* the sockets a send can be attempted on
Sendable == {ws \in Registered : readyState[ws] = "OPEN"}

\* wss.on('connection'): socket objects are created in the order 1, 2, ...
Connect(ws, clientId, fail) ==
    /\ readyState[ws] = "NONE"
    /\ \A w \in Sockets : w < ws => readyState[w] # "NONE"
    /\ Commit(onConnection(Cur, ws, clientId, chatHistory, fail))
    /\ wssClients' = wssClients \cup {ws}
    /\ missed' = [missed EXCEPT ![ws] = 0]
    /\ idOf' = [idOf EXCEPT ![ws] = clientId]
    /\ received' = NoUpdate
    /\ UNCHANGED <<chatHistory, chatCount, now>>

\* ws.on('message') with a player_update; observe says whether received records it
PlayerUpdate(ws, state, observe) ==
    /\ readyState[ws] = "OPEN"
    /\ \A i \in 1..Len(pendingUpdates) : Len(pendingUpdates[i].messages) < MaxQueue
    /\ Commit(onPlayerUpdate(Stamp(Cur, ws), ws, state))
    /\ received' = IF observe
                   THEN [ws |-> ws, frame |-> "player_update", state |-> state,
                         prev |-> IF received.ws = ws THEN received.state
                                  ELSE initialState]
                   ELSE NoUpdate
    /\ UNCHANGED <<wssClients, chatHistory, chatCount, missed, idOf, now>>

\* ws.on('message') with a chat_message; the n-th accepted one carries the text n
ChatMessage(ws, fail, cap) ==
    /\ readyState[ws] = "OPEN"
    /\ chatCount < cap
    /\ IF ~Has(clients, ws)
       THEN /\ Commit(Cur)
            /\ UNCHANGED <<chatHistory, chatCount>>
       ELSE LET senderData == Get(clients, ws)
                chatEntry == [senderId |-> senderData.id, message |-> chatCount + 1]
            IN /\ chatHistory' = PushChat(chatHistory, chatEntry)
               /\ chatCount' = chatCount + 1
               /\ Commit(broadcastImmediate(Stamp(Cur, ws),
                             ChatMsg(senderData.id, chatCount + 1), NoWs, fail))
    /\ received' = NoUpdate
    /\ UNCHANGED <<wssClients, missed, idOf, now>>

\* ws.on('message') with an emote_command
EmoteCommand(ws, emote, fail) ==
    /\ readyState[ws] = "OPEN"
    /\ IF Has(clients, ws) /\ emote \in validEmotes
       THEN Commit(broadcastImmediate(Stamp(Cur, ws),
                       EmoteStart(Get(clients, ws).id, emote), NoWs, fail))
       ELSE Commit(Stamp(Cur, ws))
    /\ received' = Frame(ws, "emote_command")
    /\ UNCHANGED <<wssClients, chatHistory, chatCount, missed, idOf, now>>

\* ws.on('message') with a type no branch of the handler knows
OtherMessage(ws) ==
    /\ readyState[ws] = "OPEN"
    /\ Commit(Stamp(Cur, ws))
    /\ received' = Frame(ws, "other")
    /\ UNCHANGED <<wssClients, chatHistory, chatCount, missed, idOf, now>>

\* ws.on('message') with a frame the handler's try gives up on: JSON.parse throws
\* before anything is read; a player_update with no state, or with a state that
\* has no position, makes hasSignificantChange throw after lastHeartbeat is set
MalformedFrame(ws, shape) ==
    /\ readyState[ws] = "OPEN"
    /\ IF shape = "unparseable" THEN Commit(Cur) ELSE Commit(Stamp(Cur, ws))
    /\ received' = Frame(ws, shape)
    /\ UNCHANGED <<wssClients, chatHistory, chatCount, missed, idOf, now>>

\* the ping branch reached without the registry lookup
Ping_NoGuard(ws, fail) ==
    /\ readyState[ws] = "OPEN"
    /\ IF ws \notin fail
       THEN Commit(Send(Stamp(Cur, ws), ws, PongMsg))
       ELSE Commit(Stamp(Cur, ws))
    /\ received' = Frame(ws, "ping")
    /\ UNCHANGED <<wssClients, chatHistory, chatCount, missed, idOf, now>>

\* the ping branch that also counts the message as a sign of life
Ping_Heartbeat(ws, fail) ==
    /\ readyState[ws] = "OPEN"
    /\ IF Has(clients, ws) /\ ws \notin fail
       THEN Commit(Send([Stamp(Cur, ws) EXCEPT !.isAlive[ws] = TRUE], ws, PongMsg))
       ELSE Commit([Stamp(Cur, ws) EXCEPT !.isAlive[ws] = TRUE])
    /\ received' = Frame(ws, "ping")
    /\ UNCHANGED <<wssClients, chatHistory, chatCount, missed, idOf, now>>

\* ws.on('message') with a ping: the reply is sent inside the handler's try
Ping(ws, fail) ==
    /\ readyState[ws] = "OPEN"
    /\ IF Has(clients, ws) /\ ws \notin fail
       THEN Commit(Send(Stamp(Cur, ws), ws, PongMsg))
       ELSE Commit(Stamp(Cur, ws))
    /\ received' = Frame(ws, "ping")
    /\ UNCHANGED <<wssClients, chatHistory, chatCount, missed, idOf, now>>

\* a pong whose handler was never registered: the acknowledgment is lost
Pong_Ignored(ws) ==
    /\ readyState[ws] = "OPEN"
    /\ Commit(Cur)
    /\ missed' = [missed EXCEPT ![ws] = 0]
    /\ received' = NoUpdate
    /\ UNCHANGED <<wssClients, chatHistory, chatCount, idOf, now>>

\* ws.on('pong', heartbeat)
Pong(ws) ==
    /\ readyState[ws] = "OPEN"
    /\ Commit([Cur EXCEPT !.isAlive[ws] = TRUE])
    /\ missed' = [missed EXCEPT ![ws] = 0]
    /\ received' = NoUpdate
    /\ UNCHANGED <<wssClients, chatHistory, chatCount, idOf, now>>

\* the callback of heartbeatInterval
Sweep(fail) ==
    /\ wssClients # {}
    /\ missed' = [ws \in Sockets |->
                    IF ws \in wssClients /\ missed[ws] < 2 THEN missed[ws] + 1
                    ELSE missed[ws]]
    /\ received' = NoUpdate
    /\ UNCHANGED <<wssClients, chatHistory, chatCount, idOf, now>>
    /\ Commit(SweepLoop(Cur, Ascending(wssClients), fail))

\* the timer callback flushBatchedUpdates
Flush(fail) ==
    /\ timers > 0
    /\ Commit(flushBatchedUpdates([Cur EXCEPT !.timers = @ - 1], fail))
    /\ received' = NoUpdate
    /\ UNCHANGED <<wssClients, chatHistory, chatCount, missed, idOf, now>>

\* the peer starts the closing handshake: no handler runs yet
PeerClose(ws) ==
    /\ readyState[ws] = "OPEN"
    /\ Commit([Cur EXCEPT !.readyState[ws] = "CLOSING"])
    /\ received' = NoUpdate
    /\ UNCHANGED <<wssClients, chatHistory, chatCount, missed, idOf, now>>

\* ws.on('close'): the library drops the socket from wss.clients first
CloseEvent(ws, fail) ==
    /\ readyState[ws] \in {"OPEN", "CLOSING"}
    /\ wssClients' = wssClients \ {ws}
    /\ Commit(handleClientDisconnect([Cur EXCEPT !.readyState[ws] = "CLOSED"], ws, fail))
    /\ received' = NoUpdate
    /\ UNCHANGED <<chatHistory, chatCount, missed, idOf, now>>

\* ws.on('error'): the library closes the socket, the close event follows later
ErrorEvent(ws, fail) ==
    /\ readyState[ws] \in {"OPEN", "CLOSING"}
    /\ Commit(handleClientDisconnect([Cur EXCEPT !.readyState[ws] = "CLOSING"], ws, fail))
    /\ received' = NoUpdate
    /\ UNCHANGED <<wssClients, chatHistory, chatCount, missed, idOf, now>>

\* time passes between two handlers
Tick ==
    /\ now <= MaxTime
    /\ now' = now + 1
    /\ UNCHANGED <<readyState, wssClients, isAlive, clients, chatHistory, pendingUpdates,
                   updateBatchTimer, timers, sent, leftCount, removeCount, missed,
                   chatCount, idOf, lastBroadcast, received, lastHeartbeat, heard>>

\* generateUniqueId: a fresh id, or (a collision) the id some earlier socket drew
FreshId(ws) == {ws}
AnyId(ws) == 1..ws

\* ---- the relay: joins, updates, batching and every way a socket goes away ----
Next ==
    \/ \E ws \in Sockets : \E id \in FreshId(ws), fail \in SUBSET Sendable :
            Connect(ws, id, fail)
    \/ \E ws \in Sockets, state \in RelayStates : PlayerUpdate(ws, state, FALSE)
    \/ \E fail \in SUBSET Sendable : Flush(fail)
    \/ \E ws \in Sockets : PeerClose(ws)
    \/ \E ws \in Sockets, fail \in SUBSET Sendable : CloseEvent(ws, fail)
    \/ \E ws \in Sockets, fail \in SUBSET Sendable : ErrorEvent(ws, fail)

Spec == Init /\ [][Next]_vars

\* ---- joining: the handshake, with the chat of socket 1 ----
NextHandshake ==
    \/ \E ws \in Sockets : \E id \in FreshId(ws), fail \in SUBSET Sendable :
            Connect(ws, id, fail)
    \/ \E fail \in SUBSET Sendable : ChatMessage(1, fail, MaxChats)
    \/ \E ws \in Sockets, state \in RelayStates : PlayerUpdate(ws, state, FALSE)
    \/ \E fail \in SUBSET Sendable : Flush(fail)
    \/ \E ws \in Sockets, fail \in SUBSET Sendable : CloseEvent(ws, fail)

HandshakeSpec == Init /\ [][NextHandshake]_vars

\* ---- every way a connection can go away ----
NextDisconnect ==
    \/ \E ws \in Sockets : \E id \in FreshId(ws), fail \in SUBSET Sendable :
            Connect(ws, id, fail)
    \/ \E ws \in {1, 2} : PlayerUpdate(ws, St(3, 0, 0, 0, FALSE, TRUE), FALSE)
    \/ \E fail \in SUBSET Sendable : Flush(fail)
    \/ \E fail \in SUBSET Sendable : Sweep(fail)
    \/ \E ws \in Sockets, fail \in SUBSET Sendable : CloseEvent(ws, fail)
    \/ \E ws \in Sockets, fail \in SUBSET Sendable : ErrorEvent(ws, fail)

DisconnectSpec == Init /\ [][NextDisconnect]_vars

\* ---- the liveness sweep ----
NextLiveness ==
    \/ \E ws \in Sockets : \E id \in FreshId(ws), fail \in SUBSET Sendable :
            Connect(ws, id, fail)
    \/ \E ws \in Sockets : Pong(ws)
    \/ \E fail \in SUBSET Sendable : Sweep(fail)
    \/ \E ws \in Sockets : PeerClose(ws)
    \/ \E ws \in Sockets, fail \in SUBSET Sendable : CloseEvent(ws, fail)
    \/ \E ws \in Sockets, fail \in SUBSET Sendable : ErrorEvent(ws, fail)

\* setInterval fires the sweep for as long as the process runs
LivenessSpec ==
    Init /\ [][NextLiveness]_vars /\ WF_vars(\E fail \in SUBSET Sendable : Sweep(fail))

\* ---- the chat history: socket 1 chats, the others join and get the history ----
NextChat ==
    \/ \E ws \in Sockets : \E id \in AnyId(ws) : Connect(ws, id, {})
    \/ \E fail \in SUBSET Sendable : ChatMessage(1, fail, MaxChatsLong)

ChatSpec == Init /\ [][NextChat]_vars

\* ---- the change filter: socket 1 moves, the others watch ----
NextFilter ==
    \/ \E ws \in Sockets : \E id \in FreshId(ws) : Connect(ws, id, {})
    \/ \E state \in FilterStates : PlayerUpdate(1, state, TRUE)
    \/ \E fail \in SUBSET Sendable : Flush(fail)

FilterSpec == Init /\ [][NextFilter]_vars

\* ---- the clock: what refreshes lastHeartbeat ----
NextHeartbeat ==
    \/ \E ws \in Sockets : \E id \in FreshId(ws) : Connect(ws, id, {})
    \/ Tick
    \/ \E ws \in Sockets : Pong(ws)
    \/ \E ws \in Sockets : Ping(ws, {})
    \/ Sweep({})

HeartbeatSpec == Init /\ [][NextHeartbeat]_vars

\* ---- probes and acknowledgments while socket 1 keeps talking ----
NextTraffic ==
    \/ \E ws \in Sockets : \E id \in FreshId(ws) : Connect(ws, id, {})
    \/ \E ws \in Sockets : Pong(ws)
    \/ \E fail \in SUBSET Sendable : Sweep(fail)
    \/ PlayerUpdate(1, St(3, 0, 0, 0, FALSE, TRUE), FALSE)
    \/ ChatMessage(1, {}, MaxChats)
    \/ EmoteCommand(1, "wave", {})
    \/ Ping(1, {})
    \/ \E ws \in Sockets : CloseEvent(ws, {})

TrafficSpec == Init /\ [][NextTraffic]_vars

\* ---- frames the message handler cannot use ----
NextMalformed ==
    \/ \E ws \in Sockets : \E id \in FreshId(ws) : Connect(ws, id, {})
    \/ \E ws \in Sockets, shape \in MalformedShapes : MalformedFrame(ws, shape)
    \/ \E ws \in {1, 2}, state \in UnusableStates : PlayerUpdate(ws, state, TRUE)
    \/ \E fail \in SUBSET Sendable : Flush(fail)

MalformedSpec == Init /\ [][NextMalformed]_vars

\* ---- emotes, unknown types and pings ----
NextMessage ==
    \/ \E ws \in Sockets : \E id \in FreshId(ws) : Connect(ws, id, {})
    \/ \E ws \in Sockets, emote \in Emotes, fail \in SUBSET Sendable :
            EmoteCommand(ws, emote, fail)
    \/ \E ws \in Sockets : OtherMessage(ws)
    \/ \E ws \in Sockets : Ping(ws, {})
    \/ \E ws \in Sockets : PeerClose(ws)

MessageSpec == Init /\ [][NextMessage]_vars

\* ---- sockets dropped by a failed send while their transport stays open ----
NextInert ==
    \/ \E ws \in Sockets : \E id \in FreshId(ws), fail \in SUBSET Sendable :
            Connect(ws, id, fail)
    \/ \E ws \in {1, 2} : PlayerUpdate(ws, St(3, 0, 0, 0, FALSE, TRUE), FALSE)
    \/ \E ws \in {1, 2} : ChatMessage(ws, {}, MaxChats)
    \/ \E ws \in {1, 2} : EmoteCommand(ws, "wave", {})
    \/ \E ws \in {1, 2} : Ping(ws, {})
    \/ \E ws \in {1, 2} : OtherMessage(ws)
    \/ \E ws \in {1, 2} : MalformedFrame(ws, "no_state")
    \/ Flush({})

InertSpec == Init /\ [][NextInert]_vars

\* ---- what each recipient is told, in order: joins, updates, flushes, leaves ----
NextDelivery ==
    \/ \E ws \in Sockets : \E id \in FreshId(ws) : Connect(ws, id, {})
    \/ \E ws \in {1, 2} : PlayerUpdate(ws, St(3, 0, 0, 0, FALSE, TRUE), FALSE)
    \/ \E fail \in SUBSET Sendable : Flush(fail)
    \/ \E ws \in Sockets : CloseEvent(ws, {})

DeliverySpec == InitObserved /\ [][NextDelivery]_vars

\* ======================= claims =======================

HandshakeTypes == {"assign_id", "existing_players", "chat_history"}
Connected == {ws \in Sockets : readyState[ws] # "NONE"}

\* the frames of type `type` the last handler sent to ws
SentTo(ws, type) == {i \in 1..Len(sent) : sent[i].to = ws /\ sent[i].msg.type = type}

\* C1: on every connect with N other registered connections and M chat entries,
\* the new socket is sent assign_id, then existing_players with N entries (omitted
\* iff N = 0), then chat_history with M entries (omitted iff M = 0), and only then
\* is player_joined sent, once to each other open connection and never to the new
\* one; no frame at all reaches a socket before its assign_id.
C1_HandshakeOrder ==
    /\ [](\A i \in 1..Len(sent) : readyState[sent[i].to] # "NONE")
    /\ [][\A ws \in Sockets :
            (readyState[ws] = "NONE" /\ readyState'[ws] # "NONE") =>
                LET N == Len(clients)
                    M == Len(chatHistory)
                    k == 1 + (IF N > 0 THEN 1 ELSE 0) + (IF M > 0 THEN 1 ELSE 0)
                    out == sent'
                IN /\ Len(out) >= k
                   /\ out[1].to = ws /\ out[1].msg.type = "assign_id"
                   /\ N > 0 => /\ out[2].to = ws
                               /\ out[2].msg.type = "existing_players"
                               /\ Len(out[2].msg.playersData) = N
                   /\ M > 0 => /\ out[k].to = ws
                               /\ out[k].msg.type = "chat_history"
                               /\ out[k].msg.history = chatHistory
                               /\ Len(out[k].msg.history) = M
                   /\ \A i \in (k + 1)..Len(out) :
                        /\ out[i].msg.type \notin HandshakeTypes
                        /\ out[i].msg.type \notin {"player_update", "batch_update"}
                        /\ out[i].msg.type = "player_joined" =>
                              out[i].to # ws /\ out[i].to \in Registered
                   /\ \A w \in Registered :
                        (readyState[w] = "OPEN" /\ Has(clients', w)) =>
                            Cardinality({i \in (k + 1)..Len(out) :
                                out[i].to = w /\ out[i].msg.type = "player_joined"}) = 1
          ]_vars

\* a third socket has just joined two registered peers and a two-entry chat history
C1_Witness ==
    /\ Len(sent) >= 5
    /\ sent[1].msg.type = "assign_id" /\ sent[1].to = 3
    /\ sent[2].msg.type = "existing_players" /\ Len(sent[2].msg.playersData) = 2
    /\ sent[3].msg.type = "chat_history" /\ Len(sent[3].msg.history) = 2
    /\ sent[4].msg.type = "player_joined" /\ sent[5].msg.type = "player_joined"

\* C2: whatever disconnect triggers fire and in whatever order (close, error,
\* liveness timeout, a send that throws in a broadcast or a flush), a connection
\* is deleted from the registry at most once and exactly one player_left with its
\* id is broadcast (one frame to every connection that is open and stays
\* registered, none to itself); once it is deleted, no handler
\* registers it again or issues another player_left for it, and its close event
\* changes nothing and sends nothing.
C2_DisconnectOnce ==
    /\ [](\A ws \in Sockets :
            /\ ws \in Registered => removeCount[ws] = 0 /\ leftCount[ws] = 0
            /\ ws \in Connected \ Registered => removeCount[ws] = 1 /\ leftCount[ws] = 1)
    /\ [][\A ws \in Connected :
            /\ ws \in Registered /\ ~Has(clients', ws) =>
                 \A w \in Sockets :
                    LET n == Cardinality({i \in 1..Len(sent') :
                                sent'[i] = [to |-> w, msg |-> PlayerLeft(idOf[ws])]})
                    IN /\ n <= 1
                       /\ (Has(clients', w) /\ readyState'[w] = "OPEN") => n = 1
                       /\ (w = ws \/ (w \notin Registered /\ ~Has(clients', w))) => n = 0
            /\ ws \notin Registered =>
                 /\ ~Has(clients', ws)
                 /\ leftCount'[ws] = leftCount[ws]
                 /\ \A i \in 1..Len(sent') : sent'[i].msg # PlayerLeft(idOf[ws])
                 /\ (readyState[ws] # "CLOSED" /\ readyState'[ws] = "CLOSED") =>
                        /\ clients' = clients /\ pendingUpdates' = pendingUpdates
                        /\ sent' = <<>>
          ]_vars

\* socket 1 was evicted by the sweep and then closed; socket 2 was dropped by a
\* send that threw (it is still open) and socket 3 got both player_left
C2_Witness ==
    /\ readyState[1] = "CLOSED" /\ missed[1] = 2 /\ leftCount[1] = 1
    /\ readyState[2] = "OPEN" /\ 2 \notin Registered /\ leftCount[2] = 1
    /\ 3 \in Registered

\* C3: a connection that has let two consecutive sweeps pass without a pong is no
\* longer registered after the second one, its socket has been terminated, and
\* exactly one player_left was broadcast for it, also after the close event the
\* termination causes; and with the sweep timer firing, a connection that missed
\* one probe is evicted or acknowledges.
C3_SweepEvicts ==
    /\ [](\A ws \in Sockets :
            missed[ws] = 2 =>
                /\ ws \notin Registered
                /\ readyState[ws] \in {"CLOSING", "CLOSED"}
                /\ removeCount[ws] = 1 /\ leftCount[ws] = 1)
    /\ \A ws \in Sockets :
            (ws \in Registered /\ missed[ws] = 1) ~> (ws \notin Registered \/ missed[ws] = 0)

\* socket 1 was evicted by its second unanswered sweep, which told socket 2, and
\* the close event of the termination has been handled
C3_Witness ==
    /\ missed[1] = 2 /\ readyState[1] = "CLOSED" /\ leftCount[1] = 1
    /\ 2 \in Registered /\ isAlive[2]

\* the player_update messages the last handler delivered to ws, batches unpacked
RECURSIVE Unpacked(_, _)
Unpacked(ws, i) ==
    IF i > Len(sent) THEN <<>>
    ELSE (IF sent[i].to # ws THEN <<>>
          ELSE IF sent[i].msg.type = "batch_update" THEN sent[i].msg.updates
          ELSE IF sent[i].msg.type = "player_update" THEN <<sent[i].msg>>
          ELSE <<>>) \o Unpacked(ws, i + 1)

FlushFrames(ws) == SentTo(ws, "player_update") \cup SentTo(ws, "batch_update")

\* C4: at each flush, every recipient with k queued messages that has an open
\* socket and is still registered when the flush ends receives exactly one frame
\* carrying them: the message itself when k = 1, one batch_update with all k in
\* enqueue order when k >= 2; every other socket receives no such frame, and no
\* queue survives the flush.
C4_FlushFrames ==
    [][timers' < timers =>
        /\ pendingUpdates' = <<>>
        /\ \A ws \in Sockets :
            IF Has(pendingUpdates, ws) /\ readyState[ws] = "OPEN" /\ Has(clients', ws)
            THEN LET messages == Get(pendingUpdates, ws).messages
                     frames == {i \in 1..Len(sent') : sent'[i].to = ws /\
                                  sent'[i].msg.type \in {"player_update", "batch_update"}}
                 IN /\ Cardinality(frames) = 1
                    /\ \A i \in frames :
                         sent'[i].msg = IF Len(messages) = 1 THEN messages[1]
                                        ELSE BatchUpdate(messages)
            ELSE \A i \in 1..Len(sent') :
                    sent'[i].to = ws =>
                        sent'[i].msg.type \notin {"player_update", "batch_update"}
    ]_vars

\* one flush delivered a batch of two to socket 3 and single updates to 1 and 2
C4_Witness ==
    /\ pendingUpdates = <<>> /\ ~updateBatchTimer
    /\ \E i \in SentTo(3, "batch_update") : Len(sent[i].msg.updates) = 2
    /\ SentTo(1, "player_update") # {} /\ SentTo(2, "player_update") # {}

\* C5: at most one flush is scheduled at any time: a timer is outstanding exactly
\* when updateBatchTimer is set, batchBroadcast adds one only when none is
\* outstanding, and only the flush itself clears updateBatchTimer.
C5_OneFlushScheduled ==
    /\ [](timers <= 1 /\ (updateBatchTimer <=> timers = 1))
    /\ [][(updateBatchTimer /\ ~updateBatchTimer') => timers' = timers - 1]_vars

\* a second update was queued while a flush was already scheduled
C5_Witness ==
    /\ timers = 1 /\ updateBatchTimer
    /\ \E i \in 1..Len(pendingUpdates) : Len(pendingUpdates[i].messages) = 2

\* C6: after any sequence of chat messages the history holds at most
\* MAX_CHAT_HISTORY entries, and they are the most recent min(n, 25) of the n
\* accepted so far, in arrival order; a message accepted when the history is full
\* drops the first entry and makes the second one the first.
C6_ChatHistoryWindow ==
    /\ [](/\ Len(chatHistory) <= MAX_CHAT_HISTORY
          /\ Len(chatHistory) = IF chatCount < MAX_CHAT_HISTORY THEN chatCount
                                ELSE MAX_CHAT_HISTORY
          /\ \A i \in 1..Len(chatHistory) :
                chatHistory[i].message = chatCount - Len(chatHistory) + i)
    /\ [][(chatCount' = chatCount + 1 /\ Len(chatHistory) = MAX_CHAT_HISTORY) =>
            /\ Len(chatHistory') = MAX_CHAT_HISTORY
            /\ chatHistory'[1] = chatHistory[2]
            /\ \A i \in 1..(MAX_CHAT_HISTORY - 1) : chatHistory'[i] = chatHistory[i + 1]
            /\ chatHistory'[MAX_CHAT_HISTORY].message = chatCount + 1
          ]_vars

\* the 26th message has been accepted: the first is gone and the second is first
C6_Witness ==
    /\ chatCount = MAX_CHAT_HISTORY + 1
    /\ Len(chatHistory) = MAX_CHAT_HISTORY
    /\ chatHistory[1].message = 2
    /\ chatHistory[MAX_CHAT_HISTORY].message = MAX_CHAT_HISTORY + 1

\* new is within 0.001 of old on every axis and in rotation, with the same flags
WithinEpsilon(old, new) ==
    /\ \A axis \in {"x", "y", "z"} :
            /\ new.position[axis] - old.position[axis] <= 2
            /\ old.position[axis] - new.position[axis] <= 2
    /\ new.rotationY - old.rotationY <= 2
    /\ old.rotationY - new.rotationY <= 2
    /\ new.isMoving = old.isMoving
    /\ new.isGrounded = old.isGrounded

Queue(ws) == IF Has(pendingUpdates, ws) THEN Get(pendingUpdates, ws).messages ELSE <<>>

\* C8: when a player_update of connection A replaces A's stored state, exactly
\* one player_update with A's id and that state is appended to the queue of every
\* other registered connection whose socket is open, the queue of A and of every
\* other socket is left alone and nothing is sent at once; no queue ever holds an
\* update of its own connection; and a flush delivers to every recipient that is
\* open and still registered exactly its queue, so A is never sent its own update.
C8_UpdateReachesOthersOnly ==
    /\ [](\A w \in Sockets : \A i \in 1..Len(Queue(w)) :
            /\ Queue(w)[i].type = "player_update"
            /\ Queue(w)[i].id # idOf[w])
    /\ [][\A a \in Registered :
            (Has(clients', a) /\ Get(clients', a).state # Get(clients, a).state) =>
                LET update == PlayerUpdateMsg(idOf[a], Get(clients', a).state)
                IN /\ sent' = <<>>
                   /\ \A w \in Sockets :
                        Queue(w)' = IF w # a /\ w \in Registered /\ readyState[w] = "OPEN"
                                    THEN Append(Queue(w), update)
                                    ELSE Queue(w)
          ]_vars
    /\ [][timers' < timers =>
            \A w \in Sockets :
                /\ (readyState[w] = "OPEN" /\ Has(clients', w)) =>
                        Unpacked(w, 1)' = Queue(w)
                /\ \A i \in 1..Len(Unpacked(w, 1)') : Unpacked(w, 1)'[i].id # idOf[w]
          ]_vars

\* socket 1 has moved 0.0015 with sockets 2 and 3 open: its update is queued once
\* for each of them and not for socket 1
C8_Witness ==
    /\ Len(clients) = 3 /\ \A w \in Sockets : readyState[w] = "OPEN"
    /\ Get(clients, 1).state = St(3, 0, 0, 0, FALSE, TRUE)
    /\ Queue(1) = <<>>
    /\ Queue(2) = <<PlayerUpdateMsg(idOf[1], St(3, 0, 0, 0, FALSE, TRUE))>>
    /\ Queue(3) = Queue(2)
    /\ sent = <<>>

\* C9: the stored state of a connection is always the default state or the state
\* of the last player_update broadcast for it, whatever it has sent since; an
\* update is broadcast (stored, and queued for every other open connection)
\* exactly when it is more than the epsilon away from that state, also when it
\* is within the epsilon of the update sent right before it.
C9_FilterAgainstLastBroadcast ==
    /\ [](\A ws \in Registered : Get(clients, ws).state = lastBroadcast[ws])
    /\ [][\A ws \in Registered :
            received'.ws = ws =>
                IF WithinEpsilon(lastBroadcast[ws], received'.state)
                THEN lastBroadcast'[ws] = lastBroadcast[ws] /\ pendingUpdates' = pendingUpdates
                ELSE /\ lastBroadcast'[ws] = received'.state
                     /\ \A w \in Registered \ {ws} :
                            readyState[w] = "OPEN" =>
                                Queue(w)' = Append(Queue(w),
                                                PlayerUpdateMsg(idOf[ws], received'.state))
          ]_vars

\* socket 1 sent 0.001 and then 0.0015 from the origin: the second update is within
\* the epsilon of the first, and it is the one stored and queued for socket 2
C9_Witness ==
    /\ received.ws = 1 /\ 1 \in Registered /\ 2 \in Registered
    /\ received.prev = St(2, 0, 0, 0, FALSE, TRUE)
    /\ received.state = St(3, 0, 0, 0, FALSE, TRUE)
    /\ WithinEpsilon(received.prev, received.state)
    /\ Get(clients, 1).state = received.state
    /\ Queue(2) = <<PlayerUpdateMsg(idOf[1], received.state)>>

\* the chat_message frames the last handler sent to ws
ChatFrames(ws) == SentTo(ws, "chat_message")

\* C10: in the immediate broadcast of a chat message, every recipient that is
\* registered with an open socket and is not dropped receives the message exactly
\* once, whichever recipients' sends throw; every recipient that is dropped is
\* deleted from the registry once, does not get the message twice, and one
\* player_left with its id reaches every open connection that stays registered.
C10_SendFailureIsolated ==
    [][chatCount' = chatCount + 1 =>
        \A w \in Sockets :
            /\ Cardinality(ChatFrames(w)') <= 1
            /\ \A i \in ChatFrames(w)' : sent'[i].msg.message = chatCount + 1
            /\ (w \notin Registered \/ readyState[w] # "OPEN") => ChatFrames(w)' = {}
            /\ (w \in Registered /\ readyState[w] = "OPEN" /\ Has(clients', w)) =>
                    Cardinality(ChatFrames(w)') = 1
            /\ (w \in Registered /\ ~Has(clients', w)) =>
                    /\ removeCount'[w] = 1 /\ leftCount'[w] = 1
                    /\ \A v \in Sockets :
                          (Has(clients', v) /\ readyState'[v] = "OPEN") =>
                              Cardinality({i \in 1..Len(sent') :
                                  sent'[i] = [to |-> v, msg |-> PlayerLeft(idOf[w])]}) = 1
    ]_vars

\* the sends to sockets 1 and 2 threw in one chat broadcast: both were dropped and
\* socket 3, behind them in the registry, got both player_left and the message
C10_Witness ==
    /\ \A w \in Sockets : readyState[w] = "OPEN"
    /\ Registered = {3}
    /\ leftCount[1] = 1 /\ leftCount[2] = 1
    /\ Cardinality(ChatFrames(3)) = 1
    /\ Cardinality(SentTo(3, "player_left")) = 2

\* C13 as stated: every pong of a registered connection sets its isAlive and
\* refreshes its lastHeartbeat to the time of the pong.
C13_PongRefreshesLastHeartbeat ==
    [][\A ws \in Registered :
            Pong(ws) => isAlive'[ws] /\ lastHeartbeat'[ws] = now]_vars

\* C11 as stated: a frame that cannot be parsed, and a player_update without a
\* usable state (none, one without a position, one whose position holds no
\* coordinates), is discarded: the sender stays registered, the registry, every
\* stored state, the chat history, the pending queues and updateBatchTimer are
\* unchanged and nothing is sent.
C11_MalformedDiscarded ==
    [][\A ws \in Registered :
            (/\ received'.ws = ws
             /\ \/ received'.frame \in MalformedShapes
                \/ received'.frame = "player_update" /\ received'.state \in UnusableStates) =>
                /\ clients' = clients
                /\ chatHistory' = chatHistory
                /\ pendingUpdates' = pendingUpdates
                /\ updateBatchTimer' = updateBatchTimer
                /\ sent' = <<>>
      ]_vars

\* the emote_start frames the last handler sent to ws
EmoteFrames(ws) == SentTo(ws, "emote_start")

\* C12: an emote_command whose emote is neither wave nor dance, and a message of
\* a type the handler does not know, sends nothing and leaves the chat history,
\* the registry with its stored states and the pending queues as they were; an
\* emote_command of a registered connection with wave or dance sends exactly one
\* emote_start with the sender's id and that emote to every registered connection
\* with an open socket whose send succeeds, the sender included, and none to any
\* other socket.
C12_EmoteAllowList ==
    [][\A ws \in Sockets :
        /\ (\/ OtherMessage(ws)
            \/ \E emote \in Emotes \ {"wave", "dance"}, fail \in SUBSET Sendable :
                    EmoteCommand(ws, emote, fail)) =>
                /\ sent' = <<>>
                /\ chatHistory' = chatHistory
                /\ clients' = clients
                /\ pendingUpdates' = pendingUpdates
        /\ \A emote \in {"wave", "dance"}, fail \in SUBSET Sendable :
              (ws \in Registered /\ EmoteCommand(ws, emote, fail)) =>
                \A w \in Sockets :
                    /\ Cardinality(EmoteFrames(w)') <= 1
                    /\ \A i \in EmoteFrames(w)' :
                            sent'[i].msg = EmoteStart(idOf[ws], emote)
                    /\ (w \in Registered /\ readyState[w] = "OPEN" /\ w \notin fail) =>
                            Cardinality(EmoteFrames(w)') = 1
                    /\ (w \notin Registered \/ readyState[w] # "OPEN" \/ w \in fail) =>
                            EmoteFrames(w)' = {}
    ]_vars

\* socket 1 has sent a valid emote with socket 3 closing: one emote_start went to
\* socket 1 itself and one to socket 2, none to socket 3
C12_Witness ==
    /\ received = Frame(1, "emote_command")
    /\ Len(clients) = 3 /\ readyState[3] = "CLOSING"
    /\ Cardinality(EmoteFrames(1)) = 1 /\ Cardinality(EmoteFrames(2)) = 1
    /\ EmoteFrames(3) = {}

\* C14: no application message (player_update, chat_message, emote_command,
\* ping) changes any isAlive flag, so isAlive is false exactly from a sweep to
\* the next pong, and a connection that lets two sweeps pass without a pong is
\* evicted by the second however many messages it has sent in between.
C14_TrafficIsNoAck ==
    /\ [][\A ws \in Sockets :
            (\/ \E state \in RelayStates : PlayerUpdate(ws, state, FALSE)
             \/ ChatMessage(ws, {}, MaxChats)
             \/ \E emote \in Emotes : EmoteCommand(ws, emote, {})
             \/ Ping(ws, {})) =>
                isAlive' = isAlive /\ missed' = missed
          ]_vars
    /\ [](\A ws \in wssClients : isAlive[ws] <=> missed[ws] = 0)
    /\ [](\A ws \in Sockets :
            missed[ws] = 2 =>
                ws \notin Registered /\ readyState[ws] \in {"CLOSING", "CLOSED"})

\* socket 1 has left a probe unanswered and has just sent a ping message, which
\* was answered: its isAlive is still false
C14_Witness ==
    /\ received = Frame(1, "ping") /\ 1 \in Registered
    /\ missed[1] = 1 /\ ~isAlive[1]
    /\ chatCount = MaxChats
    /\ Cardinality(SentTo(1, "pong")) = 1

\* C19: a sweep never terminates a connection that has answered the previous
\* probe (or has connected since the previous sweep), and never unregisters it
\* unless a send to it throws during that sweep; the connections a sweep does
\* terminate are exactly those that had a probe unanswered, whatever messages,
\* joins and disconnects happen in between.
C19_AckedNeverEvicted ==
    [][\A fail \in SUBSET Sendable :
        Sweep(fail) =>
            \A ws \in wssClients :
                /\ missed[ws] = 0 =>
                        /\ readyState'[ws] = readyState[ws]
                        /\ (ws \in Registered /\ ws \notin fail) => Has(clients', ws)
                /\ missed[ws] > 0 =>
                        /\ ~Has(clients', ws)
                        /\ readyState'[ws] \in {"CLOSING", "CLOSED"}
    ]_vars

\* socket 2, which joined after socket 1, has been evicted after two unanswered
\* probes; socket 1 answered each of them and is still registered and open
C19_Witness ==
    /\ missed[2] = 2 /\ 2 \notin Registered
    /\ 1 \in Registered /\ readyState[1] = "OPEN"
    /\ isAlive[1] /\ missed[1] = 0

\* C15: every socket that has a pending queue is registered; the handler that
\* unregisters a connection leaves no queue for it; and no player_update or
\* batch_update is ever sent to, or queued for, a socket that was unregistered
\* when the handler started.
C15_QueueDiesWithConnection ==
    /\ [](\A i \in 1..Len(pendingUpdates) : pendingUpdates[i].ws \in Registered)
    /\ [][\A ws \in Connected :
            /\ ~Has(clients', ws) => ~Has(pendingUpdates', ws)
            /\ ws \notin Registered =>
                    \A i \in 1..Len(sent') :
                        sent'[i].to = ws =>
                            sent'[i].msg.type \notin {"player_update", "batch_update"}
          ]_vars

\* a flush has just delivered socket 1's update to socket 3 and told it that
\* socket 2 left: the send of socket 2's queue threw, the queue is gone and the
\* socket is still open
C15_Witness ==
    /\ Registered = {1, 3} /\ readyState[2] = "OPEN"
    /\ pendingUpdates = <<>>
    /\ \E i \in 1..Len(sent) : sent[i] = [to |-> 3, msg |-> PlayerLeft(idOf[2])]
    /\ \E i \in 1..Len(sent) :
            sent[i] = [to |-> 3, msg |-> PlayerUpdateMsg(idOf[1], St(3, 0, 0, 0, FALSE, TRUE))]
    /\ \A i \in 1..Len(sent) : sent[i].to # 2

\* C16: whenever a pending queue exists it is non-empty and a flush is scheduled;
\* a flush leaves no queue and no flush scheduled, also when one of its sends
\* throws and disconnects the recipient; and an enqueue that finds no flush
\* scheduled schedules one.
C16_NothingStranded ==
    /\ [](/\ \A i \in 1..Len(pendingUpdates) : Len(pendingUpdates[i].messages) > 0
          /\ (pendingUpdates # <<>>) => (updateBatchTimer /\ timers = 1))
    /\ [][(timers' < timers) =>
                (pendingUpdates' = <<>> /\ ~updateBatchTimer' /\ timers' = 0)]_vars
    /\ [][(~updateBatchTimer /\ pendingUpdates' # <<>>) =>
                (updateBatchTimer' /\ timers' = timers + 1)]_vars

\* a flush in which the send to socket 2 threw has delivered socket 1's update to
\* socket 3: no queue is left and no flush is scheduled
C16_Witness ==
    /\ pendingUpdates = <<>> /\ ~updateBatchTimer /\ timers = 0
    /\ readyState[2] = "OPEN" /\ 2 \notin Registered /\ 3 \in Registered
    /\ Cardinality(SentTo(3, "player_left")) = 1
    /\ Cardinality(SentTo(3, "player_update")) = 1

\* the ids whose player_update the frame msg carries, alone or in a batch_update
UpdateIds(msg) ==
    IF msg.type = "player_update" THEN {msg.id}
    ELSE IF msg.type = "batch_update"
         THEN {msg.updates[k].id : k \in 1..Len(msg.updates)}
    ELSE {}

\* C17: once player_left for id X has been sent to a recipient, no later frame to
\* that recipient carries a player_update for X, alone or inside a batch_update:
\* neither a frame of a later handler nor a later frame of the same handler.
C17_NoUpdateAfterLeft ==
    [][\A j \in 1..Len(sent') : \A X \in UpdateIds(sent'[j].msg) :
            /\ X \notin heard[sent'[j].to].left
            /\ \A i \in 1..(j - 1) :
                    ~(sent'[i].to = sent'[j].to /\ sent'[i].msg = PlayerLeft(X))]_vars

\* the ids the frame msg introduces: player_joined, or a listing in existing_players
JoinIds(msg) ==
    IF msg.type = "player_joined" THEN {msg.playerData.id}
    ELSE IF msg.type = "existing_players"
         THEN {msg.playersData[k].id : k \in 1..Len(msg.playersData)}
    ELSE {}

\* C18: every player_update for id X sent to a recipient R comes after a
\* player_joined for X or an existing_players listing X sent to R, by an earlier
\* handler or earlier in the same one; when R connects, its existing_players lists
\* every registered connection, in registry order, with the state stored for it at
\* that moment; and from then on every update of X that replaces X's stored state is
\* appended to R's queue whenever R's socket is open.
C18_IntroducedBeforeUpdates ==
    /\ [][\A j \in 1..Len(sent') : \A X \in UpdateIds(sent'[j].msg) :
              \/ X \in heard[sent'[j].to].joined
              \/ \E i \in 1..(j - 1) :
                     sent'[i].to = sent'[j].to /\ X \in JoinIds(sent'[i].msg)]_vars
    /\ [][\A R \in Sockets : (readyState[R] = "NONE" /\ readyState'[R] # "NONE") =>
              \A i \in 1..Len(sent') :
                  (sent'[i].to = R /\ sent'[i].msg.type = "existing_players") =>
                      sent'[i].msg.playersData =
                          [k \in 1..Len(clients) |->
                              [id |-> clients[k].id, state |-> clients[k].state]]]_vars
    /\ [][\A R \in Sockets : (readyState[R] = "NONE" /\ readyState'[R] # "NONE") =>
              (Cardinality(SentTo(R, "existing_players")') =
                    IF clients = <<>> THEN 0 ELSE 1)]_vars
    /\ [][\A X \in Registered \cap Registered' :
              (Get(clients', X).state # Get(clients, X).state) =>
                  \A R \in Registered \ {X} :
                      (readyState[R] = "OPEN") =>
                          (Queue(R)' = Append(Queue(R),
                                              PlayerUpdateMsg(Get(clients, X).id,
                                                              Get(clients', X).state)))]_vars

\* socket 3, which learnt of socket 1 from its existing_players, is sent a batch
\* with an update of socket 1 and one of socket 2
C18_Witness ==
    /\ \E j \in 1..Len(sent) : sent[j].to = 3 /\ UpdateIds(sent[j].msg) = {1, 2}
    /\ heard[3].joined = {1, 2}
    /\ 3 \in heard[1].joined

\* a message of any kind arrives from ws
Inbound(ws) ==
    \/ PlayerUpdate(ws, St(3, 0, 0, 0, FALSE, TRUE), FALSE)
    \/ ChatMessage(ws, {}, MaxChats)
    \/ EmoteCommand(ws, "wave", {})
    \/ Ping(ws, {})
    \/ OtherMessage(ws)
    \/ MalformedFrame(ws, "no_state")

\* C20: a socket that is no longer in the registry while its transport is still
\* open is inert: a message from it, of whatever type, leaves the registry, the
\* chat history and the pending queues as they were and sends nothing; no handler
\* sends a frame to it (every frame goes to a socket registered when the handler
\* started, or to the socket that is just connecting); and it has no queue.
C20_RemovedSocketInert ==
    /\ [][\A ws \in {1, 2} :
              (ws \notin Registered /\ readyState[ws] = "OPEN" /\ Inbound(ws)) =>
                  /\ UNCHANGED <<clients, chatHistory, pendingUpdates, updateBatchTimer>>
                  /\ sent' = <<>>]_vars
    /\ [][\A i \in 1..Len(sent') :
              sent'[i].to \in Registered \/ readyState[sent'[i].to] = "NONE"]_vars
    /\ [](\A i \in 1..Len(pendingUpdates) : pendingUpdates[i].ws \in Registered)

\* socket 1, dropped by a failed send and still open, has just sent a ping while
\* socket 2 is registered with a queue and a chat history exists
C20_Witness ==
    /\ received = Frame(1, "ping")
    /\ 1 \notin Registered /\ readyState[1] = "OPEN"
    /\ 2 \in Registered
    /\ chatHistory # <<>>
    /\ sent = <<>>

====
